---- MODULE Spec2Model ----
(***************************************************************************)
(* Model of py/genset.py: the combinatorial indexer (hand_to_index), the   *)
(* perfect-hash step of the evaluator (hash_function), and the dataset     *)
(* pipeline of main(): evaluation of every 5-card hand, the preflop        *)
(* aggregation, the leaf file and the Merkle tree with its level files.    *)
(*                                                                         *)
(* The deck of the program has 52 cards; the model runs the same code on   *)
(* a deck of DeckSize cards (ordinals 0..DeckSize-1).  The tables of       *)
(* poker_data are not part of the sources: a hand's score is read from an  *)
(* abstract table (ScoreTable).                                            *)
(***************************************************************************)
EXTENDS Integers, Sequences, FiniteSets, TLC

VARIABLES
    pc,            \* position in main(), or in a harness calling one function
    seed,          \* which score table poker_data holds
    pending,       \* 5-card hands line 72 has not produced yet, in its order
    offsets,       \* dict of line 70, as <<key, <<z, score>>>> in insertion order
    pf_i,          \* number of 2-card combinations line 82 has processed
    preflop,       \* dict of line 80, as <<key, <<lc, ld, mean, h0, h1>>>>
    wkeys,         \* sorted(...keys()) a write loop is iterating (lines 100, 123)
    offsets_ok,    \* the assertion of line 116 has been passed
    files,         \* file name -> content written so far
    opened,        \* file names in the order they were opened for writing
    merkle_level,  \* line 121 / 149
    next_level,    \* line 136
    level,         \* line 134
    widths,        \* line 133
    mi,            \* loop variable i of line 139
    arg,           \* argument of the function under call (harnesses)
    ret            \* its outcome: [kind |-> "none" | "ok" | "error", val |-> ...]

vars == <<pc, seed, pending, offsets, pf_i, preflop, wkeys, offsets_ok,
          files, opened, merkle_level, next_level, level, widths, mi, arg, ret>>

mainVars == <<pending, offsets, pf_i, preflop, wkeys, offsets_ok,
              files, opened, merkle_level, next_level, level, widths, mi>>

-----------------------------------------------------------------------------
(* Bounds of the model and constants of the program *)

\* number of cards of the modelled deck (52 in the program)
DeckSize == 6

\* cards of one hand (the 5 of itertools.combinations(DECK, 5))
HandSize == 5

\* cards of one preflop combination (the 2 of line 82)
PairSize == 2

\* scores are 1..MaxScore (1..7462 in poker_data)
MaxScore == 7

\* number of score tables tried
NumTables == 2

\* the orders of enumeration tried start at any of the first MaxRotation + 1
\* hands of itertools' order, going up or down from there
MaxRotation == 3

\* initial value of lc, line 83 (0xFFFFFF)
LcInit == 16777215

Cards == 0 .. (DeckSize - 1)

-----------------------------------------------------------------------------
(* Library functions the code calls *)

\* math.comb(n, k) for n >= 0, k >= 0: zero when k > n
RECURSIVE comb(_, _)
comb(n, k) ==
    IF k = 0 THEN 1
    ELSE IF k > n THEN 0
    ELSE (comb(n - 1, k - 1) * n) \div k

\* sorted(x) on a tuple of integers
sorted(x) == SortSeq(x, LAMBDA a, b : a < b)

Range(s) == {s[i] : i \in 1 .. Len(s)}

\* itertools.combinations(range(lo, n), k): ascending tuples in lexicographic order
RECURSIVE CombsFrom(_, _, _)
CombsFrom(lo, n, k) ==
    IF k = 0 THEN << <<>> >>
    ELSE IF n - lo < k THEN <<>>
    ELSE LET withLo == CombsFrom(lo + 1, n, k - 1)
         IN  [i \in 1 .. Len(withLo) |-> <<lo>> \o withLo[i]]
             \o CombsFrom(lo + 1, n, k)

\* itertools.combinations(range(n), k)
combinations(n, k) == CombsFrom(0, n, k)

\* d[k] = v on a dict kept as a tuple of <<key, value>> in insertion order:
\* an existing key keeps its place, a new key goes last
DictSet(d, k, v) ==
    IF \E i \in 1 .. Len(d) : d[i][1] = k
    THEN [i \in 1 .. Len(d) |-> IF d[i][1] = k THEN <<k, v>> ELSE d[i]]
    ELSE Append(d, <<k, v>>)

\* d.keys(), d[k]
DictKeys(d) == [i \in 1 .. Len(d) |-> d[i][1]]
DictGet(d, k) == d[CHOOSE i \in 1 .. Len(d) : d[i][1] = k][2]

-----------------------------------------------------------------------------
(* hand_to_index, lines 57-59 *)

\* sum(comb(j, i) for i, j in v[::-1]) over the first n cards of v
RECURSIVE SumComb_rank_off(_, _)
SumComb_rank_off(v, n) ==
    IF n = 0 THEN 0 ELSE comb(v[n], n - 1) + SumComb_rank_off(v, n - 1)

\* line 59: sum(comb(j, i+1) for i, j in v[::-1]) over the first n cards of v
\* (position n of the model is i + 1 of the code)
RECURSIVE SumComb(_, _)
SumComb(v, n) == IF n = 0 THEN 0 ELSE comb(v[n], n) + SumComb(v, n - 1)

\* line 58: v = tuple(enumerate(sorted(x)))
hand_to_index(x) == SumComb(sorted(x), Len(x))

\* math.comb raises ValueError on a negative argument; nothing else in
\* hand_to_index raises
HandToIndexOutcome(x) ==
    IF \E p \in 1 .. Len(x) : x[p] < 0
    THEN [kind |-> "error", val |-> 0]
    ELSE [kind |-> "ok", val |-> hand_to_index(x)]

-----------------------------------------------------------------------------
(* eval5, lines 40-49 *)

\* The score poker_data's tables (FLUSHES, UNIQUE_5, HASH_VALUES) hold for the
\* cards of z: one of NumTables tables, with values 1..MaxScore.
ScoreTable(s, z) ==
    1 + ((s * (hand_to_index(z) + 1) + (s - 1) * (z[1] + z[Len(z)])) % MaxScore)

\* eval5(hand), the cards given by their ordinals (DECKIDX): the unpacking of
\* line 41 needs exactly five cards and LOOKUP a card of the deck; any five
\* cards then reach one of the three table lookups, which return an entry.
eval5(s, hand) ==
    IF Len(hand) # HandSize \/ \E p \in 1 .. Len(hand) : hand[p] \notin Cards
    THEN [kind |-> "error", val |-> 0]
    ELSE [kind |-> "ok", val |-> ScoreTable(s, sorted(hand))]

-----------------------------------------------------------------------------
(* Bytes, files and the hash *)

\* struct.pack('<H', v): two bytes, low byte first
Pack16(v) == <<v % 256, v \div 256>>

\* struct.unpack('<H', b)
Unpack16(b) == b[1] + 256 * b[2]

\* struct.pack('<H', v) raises struct.error outside 0..65535
Packable(v) == v >= 0 /\ v <= 65535

\* sha256(s).digest(): a function of the bytes hashed, taken to be free of
\* collisions; the digest is the hashed bytes between two marks
Sha256(s) == <<-1>> \o s \o <<-2>>

\* bytes([level] * 32), line 141
Filler(lv) == [i \in 1 .. 32 |-> lv]

\* one name for the file of every level
LevelFile_fixed(lv) == "scores.00"

\* 'scores.%02d' % (level,), line 138
LevelFile(lv) == "scores." \o (IF lv < 10 THEN "0" ELSE "") \o ToString(lv)

\* open(name, 'wb'): the file exists and is empty
OpenFile(fs, name) ==
    [n \in (DOMAIN fs) \cup {name} |-> IF n = name THEN <<>> ELSE fs[n]]

\* handle.write(chunk): the content of a file is the tuple of the chunks written
WriteFile(fs, name, chunk) == [fs EXCEPT ![name] = Append(@, chunk)]

-----------------------------------------------------------------------------
(* main(), lines 67-154 *)

\* the tuples of line 72, the cards given by their ordinals
AllHands == combinations(DeckSize, HandSize)

\* the tuples of line 82
AllPairs == combinations(DeckSize, PairSize)

\* lines 72-74, one iteration: z = sorted(DECKIDX[_] for _ in hand);
\* offsets[hand_to_index(z)] = (z, eval5(hand))
AddHand(d, s, hand) ==
    LET z == sorted(hand)
    IN  DictSet(d, hand_to_index(z), <<z, eval5(s, hand).val>>)

EvalHand ==
    /\ pc = "eval"
    /\ pending # <<>>
    /\ offsets' = AddHand(offsets, seed, Head(pending))
    /\ pending' = Tail(pending)
    /\ pc' = IF Len(pending) = 1 THEN "preflop" ELSE "eval"
    /\ UNCHANGED <<seed, pf_i, preflop, wkeys, offsets_ok, files, opened,
                   merkle_level, next_level, level, widths, mi, arg, ret>>

\* lines 83-91: the scan of offsets.values() for the hands holding h0 and h1,
\* from the state acc = [la, lb, lc, ld]
RECURSIVE Scan(_, _, _, _)
Scan(d, h0, h1, acc) ==
    IF d = <<>> THEN acc
    ELSE LET z == Head(d)[2][1]
             s == Head(d)[2][2]
         IN  IF h0 \in Range(z) /\ h1 \in Range(z)
             THEN Scan(Tail(d), h0, h1,
                       [la |-> acc.la + s,
                        lb |-> acc.lb + 1,
                        lc |-> IF s < acc.lc THEN s ELSE acc.lc,
                        ld |-> IF s > acc.ld THEN s ELSE acc.ld])
             ELSE Scan(Tail(d), h0, h1, acc)

\* line 83
ScanInit == [la |-> 0, lb |-> 0, lc |-> LcInit, ld |-> 0]

\* la // lb in place of ceil(la / lb)
CeilDiv_floor(a, b) == a \div b

\* ceil(la / lb), line 92: the quotient of two integers below 2^53 is a float
\* whose ceiling is the ceiling of the exact quotient
CeilDiv(a, b) == (a + b - 1) \div b

\* line 92: the value stored for the pair
PreflopValue(d, h0, h1) ==
    LET r == Scan(d, h0, h1, ScanInit)
    IN  <<r.lc, r.ld, CeilDiv(r.la, r.lb), h0, h1>>

\* lines 82-92, one iteration; a pair no hand holds divides by zero
PreflopPair ==
    /\ pc = "preflop"
    /\ pf_i < Len(AllPairs)
    /\ LET h0 == AllPairs[pf_i + 1][1]
           h1 == AllPairs[pf_i + 1][2]
       IN  IF Scan(offsets, h0, h1, ScanInit).lb = 0
           THEN /\ pc' = "abort"
                /\ UNCHANGED <<preflop, pf_i>>
           ELSE /\ preflop' = DictSet(preflop, hand_to_index(<<h0, h1>>),
                                      PreflopValue(offsets, h0, h1))
                /\ pf_i' = pf_i + 1
                /\ pc' = IF pf_i + 1 = Len(AllPairs) THEN "assert_preflop" ELSE "preflop"
    /\ UNCHANGED <<seed, pending, offsets, wkeys, offsets_ok, files, opened,
                   merkle_level, next_level, level, widths, mi, arg, ret>>

\* preflop.keys() in place of sorted(preflop.keys())
PreflopOrder_unsorted(d) == DictKeys(d)

\* sorted(preflop.keys()), line 100
PreflopOrder(d) == sorted(DictKeys(d))

\* lines 94-100: assert len(preflop) == max_i, then scores.preflop is opened and
\* the keys sorted
OpenPreflop ==
    /\ pc = "assert_preflop"
    /\ IF Len(preflop) = comb(DeckSize, PairSize)
       THEN /\ files' = OpenFile(files, "scores.preflop")
            /\ opened' = Append(opened, "scores.preflop")
            /\ wkeys' = PreflopOrder(preflop)
            /\ pc' = "write_preflop"
       ELSE /\ pc' = "abort"
            /\ UNCHANGED <<files, opened, wkeys>>
    /\ UNCHANGED <<seed, pending, offsets, pf_i, preflop, offsets_ok,
                   merkle_level, next_level, level, widths, mi, arg, ret>>

\* line 102: bytes([d,e]) + struct.pack('<H',a) + struct.pack('<H',b) + struct.pack('<H',c)
PreflopBytes(v) == <<v[4], v[5]>> \o Pack16(v[1]) \o Pack16(v[2]) \o Pack16(v[3])

\* lines 100-102, one iteration; the loop over, the with block closes the file
WritePreflopRecord ==
    /\ pc = "write_preflop"
    /\ wkeys # <<>>
    /\ LET v == DictGet(preflop, Head(wkeys))
       IN  IF Packable(v[1]) /\ Packable(v[2]) /\ Packable(v[3])
           THEN /\ files' = WriteFile(files, "scores.preflop", PreflopBytes(v))
                /\ wkeys' = Tail(wkeys)
                /\ pc' = IF Len(wkeys) = 1 THEN "assert_offsets" ELSE "write_preflop"
           ELSE /\ pc' = "abort"
                /\ UNCHANGED <<files, wkeys>>
    /\ UNCHANGED <<seed, pending, offsets, pf_i, preflop, offsets_ok, opened,
                   merkle_level, next_level, level, widths, mi, arg, ret>>

\* offsets.keys() in place of sorted(offsets.keys())
LeafOrder_unsorted(d) == DictKeys(d)

\* sorted(offsets.keys()), line 123
LeafOrder(d) == sorted(DictKeys(d))

\* the number line 116 compares len(offsets) with: 2598960 = comb(52, 5)
ExpectedHands == comb(DeckSize, HandSize)

\* lines 116-123: assert len(offsets) == 2598960, then merkle_level = list(),
\* scores.leaf is opened and the keys sorted
OpenLeaf ==
    /\ pc = "assert_offsets"
    /\ IF Len(offsets) = ExpectedHands
       THEN /\ offsets_ok' = TRUE
            /\ merkle_level' = <<>>
            /\ files' = OpenFile(files, "scores.leaf")
            /\ opened' = Append(opened, "scores.leaf")
            /\ wkeys' = LeafOrder(offsets)
            /\ pc' = "write_leaf"
       ELSE /\ pc' = "abort"
            /\ UNCHANGED <<offsets_ok, merkle_level, files, opened, wkeys>>
    /\ UNCHANGED <<seed, pending, offsets, pf_i, preflop,
                   next_level, level, widths, mi, arg, ret>>

\* line 126: entry = bytes(z) + struct.pack('<H', score)
LeafBytes(v) == v[1] \o Pack16(v[2])

\* lines 123-128, one iteration; the loop over, lines 133-134 set widths and level
WriteLeafRecord ==
    /\ pc = "write_leaf"
    /\ wkeys # <<>>
    /\ LET v == DictGet(offsets, Head(wkeys))
       IN  IF Packable(v[2])
           THEN /\ merkle_level' = Append(merkle_level, Sha256(LeafBytes(v)))
                /\ files' = WriteFile(files, "scores.leaf", LeafBytes(v))
                /\ wkeys' = Tail(wkeys)
                /\ pc' = IF Len(wkeys) = 1 THEN "merkle" ELSE "write_leaf"
           ELSE /\ pc' = "abort"
                /\ UNCHANGED <<merkle_level, files, wkeys>>
    /\ widths' = <<>>
    /\ level' = 0
    /\ UNCHANGED <<seed, pending, offsets, pf_i, preflop, offsets_ok, opened,
                   next_level, mi, arg, ret>>

\* while len(merkle_level) > 2 in place of while len(merkle_level) != 1
LoopTest_above_two(ml) == Len(ml) > 2

\* the test of while len(merkle_level) != 1, line 135
LoopTest(ml) == Len(ml) # 1

\* lines 135-139: the loop test passes; next_level = list(), the width is
\* recorded and the level's file opened
MerkleOpenLevel ==
    /\ pc = "merkle"
    /\ LoopTest(merkle_level)
    /\ next_level' = <<>>
    /\ widths' = Append(widths, Len(merkle_level))
    /\ files' = OpenFile(files, LevelFile(level))
    /\ opened' = Append(opened, LevelFile(level))
    /\ mi' = 0
    /\ pc' = "merkle_nodes"
    /\ UNCHANGED <<seed, pending, offsets, pf_i, preflop, wkeys, offsets_ok,
                   merkle_level, level, arg, ret>>

\* the filler of level 0 at every level
ParentNode_fixed_filler(ml, lv, i) ==
    IF i + 1 >= Len(ml)
    THEN Sha256(ml[i + 1] \o Filler(0))
    ELSE Sha256(ml[i + 1] \o ml[i + 2])

\* lines 140-144: the parent of the nodes at (0-based) i and i + 1 of ml
ParentNode(ml, lv, i) ==
    IF i + 1 >= Len(ml)
    THEN Sha256(ml[i + 1] \o Filler(lv))
    ELSE Sha256(ml[i + 1] \o ml[i + 2])

\* lines 139-146, one iteration of for i in range(0, len(merkle_level), 2)
MerkleNode ==
    /\ pc = "merkle_nodes"
    /\ mi < Len(merkle_level)
    /\ LET x == ParentNode(merkle_level, level, mi)
       IN  /\ next_level' = Append(next_level, x)
           /\ files' = WriteFile(files, LevelFile(level), x)
    /\ mi' = mi + 2
    /\ UNCHANGED <<pc, seed, pending, offsets, pf_i, preflop, wkeys, offsets_ok,
                   opened, merkle_level, level, widths, arg, ret>>

\* lines 147-150: the for loop over, level += 1 and the next level takes over
MerkleCloseLevel ==
    /\ pc = "merkle_nodes"
    /\ mi >= Len(merkle_level)
    /\ level' = level + 1
    /\ merkle_level' = next_level
    /\ next_level' = <<>>
    /\ pc' = "merkle"
    /\ UNCHANGED <<seed, pending, offsets, pf_i, preflop, wkeys, offsets_ok,
                   files, opened, widths, mi, arg, ret>>

\* lines 152-153: the loop test fails; scores.root takes merkle_level[0]
WriteRoot ==
    /\ pc = "merkle"
    /\ ~LoopTest(merkle_level)
    /\ files' = WriteFile(OpenFile(files, "scores.root"), "scores.root", merkle_level[1])
    /\ opened' = Append(opened, "scores.root")
    /\ pc' = "done"
    /\ UNCHANGED <<seed, pending, offsets, pf_i, preflop, wkeys, offsets_ok,
                   merkle_level, next_level, level, widths, mi, arg, ret>>

NoFiles == [n \in {} |-> <<>>]

NoCall == [kind |-> "none", val |-> 0]

\* main() is entered: nothing evaluated, nothing written
InitMain(order) ==
    /\ pc = "eval"
    /\ seed \in 1 .. NumTables
    /\ pending = order
    /\ offsets = <<>>
    /\ pf_i = 0
    /\ preflop = <<>>
    /\ wkeys = <<>>
    /\ offsets_ok = FALSE
    /\ files = NoFiles
    /\ opened = <<>>
    /\ merkle_level = <<>>
    /\ next_level = <<>>
    /\ level = 0
    /\ widths = <<>>
    /\ mi = 0
    /\ arg = <<>>
    /\ ret = NoCall

\* the program: the hands are enumerated in the order of itertools.combinations
Init == InitMain(AllHands)

Next ==
    \/ EvalHand
    \/ PreflopPair
    \/ OpenPreflop
    \/ WritePreflopRecord
    \/ OpenLeaf
    \/ WriteLeafRecord
    \/ MerkleOpenLevel
    \/ MerkleNode
    \/ MerkleCloseLevel
    \/ WriteRoot

Spec == Init /\ [][Next]_vars

Rotate(s, r) == SubSeq(s, r + 1, Len(s)) \o SubSeq(s, 1, r)

Reverse(s) == [i \in 1 .. Len(s) |-> s[Len(s) + 1 - i]]

\* the hands reach offsets in another order than the program's: itertools'
\* order rotated, forwards or backwards
InitReorder ==
    \E r \in 0 .. MaxRotation :
        \/ InitMain(Rotate(AllHands, r % Len(AllHands)))
        \/ InitMain(Reverse(Rotate(AllHands, r % Len(AllHands))))

SpecReorder == InitReorder /\ [][Next]_vars

-----------------------------------------------------------------------------
(* The Merkle build on its own, lines 133-153, over any number of leaves *)

\* most leaves the build is run on
MaxLeaves == 9

\* the hand whose combinatorial index is j (the j-th record of scores.leaf)
HandAt(j) ==
    CHOOSE z \in Range(combinations(HandSize + j, HandSize)) : hand_to_index(z) = j

\* the record lines 124-126 make of the hand of index j
LeafAt(s, j) == LeafBytes(<<HandAt(j), eval5(s, HandAt(j)).val>>)

\* line 133 is reached with n leaf records written and hashed
InitMerkle ==
    /\ pc = "merkle"
    /\ seed \in 1 .. NumTables
    /\ pending = <<>>
    /\ offsets = <<>>
    /\ pf_i = 0
    /\ preflop = <<>>
    /\ wkeys = <<>>
    /\ offsets_ok = TRUE
    /\ \E n \in 1 .. MaxLeaves :
          /\ files = [f \in {"scores.leaf"} |-> [j \in 1 .. n |-> LeafAt(seed, j - 1)]]
          /\ merkle_level = [j \in 1 .. n |-> Sha256(LeafAt(seed, j - 1))]
    /\ opened = <<"scores.leaf">>
    /\ next_level = <<>>
    /\ level = 0
    /\ widths = <<>>
    /\ mi = 0
    /\ arg = <<>>
    /\ ret = NoCall

NextMerkle ==
    \/ MerkleOpenLevel
    \/ MerkleNode
    \/ MerkleCloseLevel
    \/ WriteRoot

SpecMerkle == InitMerkle /\ [][NextMerkle]_vars

\* the loop is sequential code: a step that can be taken is taken
FairSpecMerkle == SpecMerkle /\ WF_vars(NextMerkle)

-----------------------------------------------------------------------------
(* hand_to_index and eval5 called on any tuple of cards *)

\* the tuples of 1..HandSize ordinals, -1 standing for a card outside the deck
CallArgs ==
    UNION {[1 .. k -> (-1) .. (DeckSize - 1)] : k \in 1 .. HandSize}

IdleMain ==
    /\ pending = <<>>
    /\ offsets = <<>>
    /\ pf_i = 0
    /\ preflop = <<>>
    /\ wkeys = <<>>
    /\ offsets_ok = FALSE
    /\ files = NoFiles
    /\ opened = <<>>
    /\ merkle_level = <<>>
    /\ next_level = <<>>
    /\ level = 0
    /\ widths = <<>>
    /\ mi = 0

InitCall ==
    /\ pc = "call"
    /\ seed \in 1 .. NumTables
    /\ arg \in CallArgs
    /\ ret = NoCall
    /\ IdleMain

CallHandToIndex ==
    /\ pc = "call"
    /\ ret' = HandToIndexOutcome(arg)
    /\ pc' = "hand_to_index"
    /\ UNCHANGED <<seed, arg>>
    /\ UNCHANGED mainVars

CallEval5 ==
    /\ pc = "call"
    /\ ret' = eval5(seed, arg)
    /\ pc' = "eval5"
    /\ UNCHANGED <<seed, arg>>
    /\ UNCHANGED mainVars

NextCall ==
    \/ CallHandToIndex
    \/ CallEval5

SpecCall == InitCall /\ [][NextCall]_vars

-----------------------------------------------------------------------------
(* hash_function, lines 29-38.  A Python integer is unbounded: it is kept as  *)
(* the tuple of its PyWidth low bits, lowest first, wide enough that no step *)
(* of hash_function loses a bit.                                             *)

\* bits kept of a Python integer
PyWidth == 44

\* ranks of the deck (len(RANKS), len(_PRIMES))
NumRanks == 13

\* _PRIMES, line 19
PRIMES == <<2, 3, 5, 7, 11, 13, 17, 19, 23, 29, 31, 37, 41>>

RECURSIVE Pow2(_)
Pow2(n) == IF n = 0 THEN 1 ELSE 2 * Pow2(n - 1)

\* the bits of an integer below 2^30
Bits(v) == [i \in 1 .. PyWidth |-> IF i <= 30 THEN (v \div Pow2(i - 1)) % 2 ELSE 0]

\* the bits of hi * 2^16 + lo
Bits2(hi, lo) ==
    [i \in 1 .. PyWidth |->
        IF i <= 16 THEN (lo \div Pow2(i - 1)) % 2
        ELSE IF i <= 32 THEN (hi \div Pow2(i - 17)) % 2
        ELSE 0]

\* the integer of the n low bits, n <= 30
RECURSIVE Low(_, _)
Low(x, n) == IF n = 0 THEN 0 ELSE x[n] * Pow2(n - 1) + Low(x, n - 1)

RECURSIVE AddFrom(_, _, _, _)
AddFrom(x, y, i, carry) ==
    IF i > PyWidth THEN <<>>
    ELSE LET t == x[i] + y[i] + carry
         IN  <<t % 2>> \o AddFrom(x, y, i + 1, t \div 2)

\* x + y, x ^ y, x >> k, x << k, x & (2^n - 1)
BvAdd(x, y) == AddFrom(x, y, 1, 0)
BvXor(x, y) == [i \in 1 .. PyWidth |-> (x[i] + y[i]) % 2]
BvShr(x, k) == [i \in 1 .. PyWidth |-> IF i + k <= PyWidth THEN x[i + k] ELSE 0]
BvShl(x, k) == [i \in 1 .. PyWidth |-> IF i - k >= 1 THEN x[i - k] ELSE 0]
BvMask(x, n) == [i \in 1 .. PyWidth |-> IF i <= n THEN x[i] ELSE 0]

\* 0xe91aaa35, line 30
HashConst == Bits2(59674, 43573)

\* poker_data.HASH_ADJUST[b]: a table of 512 unsigned 16-bit entries
HASH_ADJUST(s, b) == (s * 40503 * (b + 1) + (s - 1) * 8191) % 65536

\* lines 30-32: x before the mask
HashPreMask(x) ==
    LET x1 == BvAdd(x, HashConst)
        x2 == BvXor(x1, BvShr(x1, 16))
    IN  BvAdd(x2, BvShl(x2, 8))

\* lines 30-34 without the mask of line 33
HashMix_no_mask(x) ==
    LET x3 == HashPreMask(x)
    IN  BvXor(x3, BvShr(x3, 4))

\* lines 30-34: x after the mask and the second xor-shift
HashMix(x) ==
    LET x4 == BvMask(HashPreMask(x), 32)
    IN  BvXor(x4, BvShr(x4, 4))

\* line 35, on the x of line 34: b = (x >> 8) & 0x1ff
HashB(m) == Low(BvMask(BvShr(m, 8), 9), 9)

\* lines 36-37, on the x of line 34: a = (x + (x << 2)) >> 19;
\* r = (a ^ HASH_ADJUST[b]) & 0x1fff
HashR(s, m, b) ==
    LET a == BvShr(BvAdd(m, BvShl(m, 2)), 19)
    IN  Low(BvMask(BvXor(a, Bits(HASH_ADJUST(s, b))), 13), 13)

\* hash_function(p): the two table indices it computes
hash_function(s, p) ==
    LET m == HashMix(Bits(p))
        b == HashB(m)
    IN  [kind |-> "ok", val |-> <<b, HashR(s, m, b)>>]

\* line 48: the product of the primes of five ranks, at most four of them equal
PrimeProducts ==
    {PRIMES[t[1]] * PRIMES[t[2]] * PRIMES[t[3]] * PRIMES[t[4]] * PRIMES[t[5]] :
        t \in {u \in [1 .. HandSize -> 1 .. NumRanks] :
                  /\ \A i \in 1 .. (HandSize - 1) : u[i] <= u[i + 1]
                  /\ u[1] # u[HandSize]}}

InitHash ==
    /\ pc = "call"
    /\ seed = 1
    /\ arg \in PrimeProducts
    /\ ret = NoCall
    /\ IdleMain

CallHashFunction ==
    /\ pc = "call"
    /\ ret' = hash_function(seed, arg)
    /\ pc' = "hash_function"
    /\ UNCHANGED <<seed, arg>>
    /\ UNCHANGED mainVars

NextHash == CallHashFunction

SpecHash == InitHash /\ [][NextHash]_vars

-----------------------------------------------------------------------------
(* Properties of hand_to_index and eval5 *)

NoDuplicates(x) == Cardinality(Range(x)) = Len(x)

IsSubsetOfDeck(x) == NoDuplicates(x) /\ \A p \in 1 .. Len(x) : x[p] >= 0

Max(S) == CHOOSE a \in S : \A b \in S : b <= a

\* the indices hand_to_index gives the k-subsets of {0..n-1}
IndexImage(n, k) == {hand_to_index(T) : T \in Range(combinations(n, k))}

\* for every size of deck and of subset, the indices of all subsets
IndexImages ==
    [n \in 1 .. DeckSize |-> [k \in 1 .. HandSize |-> IndexImage(n, k)]]

\* C1: hand_to_index is a bijection from the k-subsets of {0..n-1} onto
\* 0..C(n,k)-1.  The index returned for a k-subset (its cards in any order)
\* lies in [0, C(n,k)) for every n the subset fits in, no other k-subset has
\* that index, and the indices of the k-subsets of {0..n-1} are all of
\* 0..C(n,k)-1.
C1_HandToIndexBijection ==
    (pc = "hand_to_index" /\ IsSubsetOfDeck(arg)) =>
        LET k == Len(arg)
        IN  /\ ret.kind = "ok"
            /\ \A n \in (Max(Range(arg)) + 1) .. DeckSize :
                  /\ ret.val >= 0
                  /\ ret.val < comb(n, k)
                  /\ IndexImages[n][k] = 0 .. (comb(n, k) - 1)
            /\ \A T \in Range(combinations(DeckSize, k)) :
                  Range(T) # Range(arg) => hand_to_index(T) # ret.val

\* C1 witness: the five highest cards, given in descending order, have the
\* last index
C1_Witness ==
    /\ pc = "hand_to_index"
    /\ Len(arg) = HandSize
    /\ IsSubsetOfDeck(arg)
    /\ arg[1] = DeckSize - 1
    /\ arg # sorted(arg)
    /\ ret.val = comb(DeckSize, HandSize) - 1

\* C7: a precondition violation ends in an error: hand_to_index on a key with
\* a duplicate ordinal, and eval5 on fewer than five distinct cards, return
\* nothing.
C7_PreconditionViolationFatal ==
    /\ (pc = "hand_to_index" /\ ~NoDuplicates(arg)) => ret.kind = "error"
    /\ (pc = "eval5" /\ Cardinality(Range(arg)) < HandSize) => ret.kind = "error"

-----------------------------------------------------------------------------
(* Properties of hash_function *)

\* a 32-bit unsigned register: every result is cut to 32 bits
U32(x) == BvMask(x, 32)

\* lines 30-34 in wrapping 32-bit unsigned arithmetic
Mix32(x) ==
    LET y1 == U32(BvAdd(U32(x), HashConst))
        y2 == BvXor(y1, BvShr(y1, 16))
        y3 == U32(BvAdd(y2, U32(BvShl(y2, 8))))
    IN  BvXor(y3, BvShr(y3, 4))

B32(m) == Low(BvMask(BvShr(m, 8), 9), 9)

R32(adj, m) ==
    LET a == BvShr(U32(BvAdd(m, U32(BvShl(m, 2)))), 19)
    IN  Low(BvMask(BvXor(a, Bits(adj)), 13), 13)

\* C10: for every product of the rank primes of a 5-card hand, hash_function
\* computes the indices b (0..511) and r (0..8191) that the same steps give
\* in wrapping 32-bit unsigned arithmetic.
C10_HashMatches32Bit ==
    pc = "hash_function" =>
        LET m == Mix32(Bits(arg))
            b == B32(m)
        IN  /\ ret.val[1] = b
            /\ ret.val[2] = R32(HASH_ADJUST(seed, b), m)
            /\ ret.val[1] >= 0 /\ ret.val[1] <= 511
            /\ ret.val[2] >= 0 /\ ret.val[2] <= 8191

\* C10 witness: four aces and a king, whose x of line 32 needs more than 32
\* bits
C10_Witness ==
    /\ pc = "hash_function"
    /\ arg = 104553157
    /\ \E i \in 33 .. PyWidth : HashPreMask(Bits(arg))[i] = 1

-----------------------------------------------------------------------------
(* Properties of the files of main() *)

Written(name) == IF name \in DOMAIN files THEN files[name] ELSE <<>>

\* the fields of a record of scores.leaf
LeafHand(r) == SubSeq(r, 1, HandSize)

\* the leaf loop of lines 123-128 is over
LeafWritten == pc \in {"merkle", "merkle_nodes", "done"}

\* the hand of combinatorial index j among the hands of the deck
DeckHandAt(j) == CHOOSE z \in Range(AllHands) : hand_to_index(z) = j

\* the leaf records as the deck and the score table alone give them
CanonicalLeaves(s) ==
    [j \in 1 .. comb(DeckSize, HandSize) |->
        DeckHandAt(j - 1) \o Pack16(ScoreTable(s, DeckHandAt(j - 1)))]

\* C2: the records of scores.leaf are strictly ascending by combinatorial
\* index at all times and are hashed, in that order, into the leaf level; the
\* loop over, they hold each 5-card combination once and are the sequence the
\* deck and the scores determine, whatever the order of enumeration was.
C2_LeafOrderCanonical ==
    LET recs == Written("scores.leaf")
    IN  /\ \A i, j \in 1 .. Len(recs) :
              i < j => hand_to_index(LeafHand(recs[i])) < hand_to_index(LeafHand(recs[j]))
        /\ (pc = "write_leaf" \/ (pc = "merkle" /\ level = 0)) =>
              merkle_level = [j \in 1 .. Len(recs) |-> Sha256(recs[j])]
        /\ LeafWritten =>
              /\ Len(recs) = comb(DeckSize, HandSize)
              /\ {LeafHand(recs[j]) : j \in 1 .. Len(recs)} = Range(AllHands)
              /\ recs = CanonicalLeaves(seed)

\* C2 witness: the run is over and the hands had reached offsets in an order
\* that is not the order of their indices
C2_Witness ==
    /\ pc = "done"
    /\ DictKeys(offsets) # [i \in 1 .. Len(AllHands) |-> hand_to_index(AllHands[i])]
    /\ DictKeys(offsets) # sorted(DictKeys(offsets))
    /\ Len(Written("scores.leaf")) = comb(DeckSize, HandSize)

\* C3: in every state where an artifact file has been written, the check of
\* the 5-card index map (line 116) has passed.
C3_NoArtifactBeforeIntegrityCheck ==
    DOMAIN files # {} => offsets_ok

\* the fields of a record of scores.preflop
PreflopCards(r) == <<r[1], r[2]>>
PreflopMin(r) == Unpack16(SubSeq(r, 3, 4))
PreflopMax(r) == Unpack16(SubSeq(r, 5, 6))
PreflopMean(r) == Unpack16(SubSeq(r, 7, 8))

\* the entries of offsets whose hand holds both cards
Holding(h0, h1) ==
    {i \in 1 .. Len(offsets) : {h0, h1} \subseteq Range(offsets[i][2][1])}

RECURSIVE ScoreSum(_)
ScoreSum(I) ==
    IF I = {} THEN 0
    ELSE LET i == CHOOSE e \in I : TRUE
         IN  offsets[i][2][2] + ScoreSum(I \ {i})

\* C6: every record of scores.preflop holds the smallest and the largest
\* score of the evaluated hands that contain both of its cards (all the
\* hands of the deck that do), and the ceiling of their mean; min <= mean <= max.
C6_PreflopMinMaxMean ==
    \A n \in 1 .. Len(Written("scores.preflop")) :
        LET r == Written("scores.preflop")[n]
            I == Holding(r[1], r[2])
            scores == {offsets[i][2][2] : i \in I}
        IN  /\ Cardinality(I) = comb(DeckSize - PairSize, HandSize - PairSize)
            /\ PreflopMin(r) \in scores
            /\ \A x \in scores : PreflopMin(r) <= x
            /\ PreflopMax(r) \in scores
            /\ \A x \in scores : x <= PreflopMax(r)
            /\ PreflopMean(r) * Cardinality(I) >= ScoreSum(I)
            /\ (PreflopMean(r) - 1) * Cardinality(I) < ScoreSum(I)
            /\ PreflopMin(r) <= PreflopMean(r)
            /\ PreflopMean(r) <= PreflopMax(r)

\* C6 witness: a record whose mean is not a whole number and lies strictly
\* between its min and its max
C6_Witness ==
    \E n \in 1 .. Len(Written("scores.preflop")) :
        LET r == Written("scores.preflop")[n]
            I == Holding(r[1], r[2])
        IN  /\ PreflopMin(r) < PreflopMean(r)
            /\ PreflopMean(r) < PreflopMax(r)
            /\ ScoreSum(I) % Cardinality(I) # 0

\* the preflop loop of lines 100-102 is over
PreflopWritten == pc \notin {"eval", "preflop", "assert_preflop", "write_preflop", "abort"}

\* C9: the records of scores.preflop are strictly ascending by the k=2
\* combinatorial index of their two cards at all times; the loop over, there
\* are C(DeckSize, 2) of them, one for each 2-card combination of the deck.
C9_OnePreflopRecordPerPair ==
    LET recs == Written("scores.preflop")
    IN  /\ \A i, j \in 1 .. Len(recs) :
              i < j => hand_to_index(PreflopCards(recs[i])) < hand_to_index(PreflopCards(recs[j]))
        /\ PreflopWritten =>
              /\ Len(recs) = comb(DeckSize, PairSize)
              /\ {PreflopCards(recs[j]) : j \in 1 .. Len(recs)} = Range(AllPairs)

\* C9 witness: all records written, the pairs having been processed in an
\* order that is not the order of their indices
C9_Witness ==
    /\ PreflopWritten
    /\ Len(Written("scores.preflop")) = comb(DeckSize, PairSize)
    /\ DictKeys(preflop) # sorted(DictKeys(preflop))

-----------------------------------------------------------------------------
(* Properties of the Merkle build *)

\* the digests of the records of scores.leaf, in the order of the file
LeafDigests ==
    [j \in 1 .. Len(Written("scores.leaf")) |-> Sha256(Written("scores.leaf")[j])]

\* the nodes level lv is hashed from: the leaf digests, or the file below
LevelInput(lv) == IF lv = 0 THEN LeafDigests ELSE Written(LevelFile(lv - 1))

\* the levels whose file has been opened
LevelsOpened == IF pc = "merkle_nodes" THEN 0 .. level ELSE 0 .. (level - 1)

\* C4: a level of width w hashes to a level of width ceil(w/2) whose node j
\* is hash(node[2j] || node[2j+1]) when 2j+1 < w; the last node of a level
\* of odd width is hash(node[w-1] || 32 bytes of value L), L the number of
\* the level, and the fillers of two different levels differ.
C4_PairingAndFiller ==
    \A lv \in LevelsOpened :
        LET in == LevelInput(lv)
            w == Len(in)
            out == Written(LevelFile(lv))
        IN  /\ widths[lv + 1] = w
            /\ Len(out) <= (w + 1) \div 2
            /\ lv < level => Len(out) = (w + 1) \div 2
            /\ \A j \in 0 .. (Len(out) - 1) :
                  IF 2 * j + 1 < w
                  THEN out[j + 1] = Sha256(in[2 * j + 1] \o in[2 * j + 2])
                  ELSE out[j + 1] = Sha256(in[w] \o [b \in 1 .. 32 |-> lv])
            /\ \A other \in LevelsOpened : other # lv => Filler(other) # Filler(lv)

\* C4 witness: the build is over and two levels had an odd width
C4_Witness ==
    /\ pc = "done"
    /\ \E a, b \in 1 .. Len(widths) : a < b /\ widths[a] % 2 = 1 /\ widths[b] % 2 = 1

\* the least k with 2^k >= n
RECURSIVE CeilLog2From(_, _)
CeilLog2From(n, k) == IF Pow2(k) >= n THEN k ELSE CeilLog2From(n, k + 1)

CeilLog2(n) == CeilLog2From(n, 0)

\* C5: from n >= 1 leaf digests the level loop ends with one node left, after
\* ceil(log2(n)) rounds.
C5_LoopEndsWithRoot ==
    <>(/\ pc = "done"
       /\ Len(merkle_level) = 1
       /\ level = CeilLog2(Len(Written("scores.leaf")))
       /\ Len(widths) = level)

\* C5 witness: the loop has ended on a number of leaves that is no power of
\* two, after more than two rounds
C5_Witness ==
    /\ pc = "done"
    /\ Len(merkle_level) = 1
    /\ level > 2
    /\ Len(Written("scores.leaf")) # Pow2(level)

Digit == <<"0", "1", "2", "3", "4", "5", "6", "7", "8", "9">>

\* scores.NN for level n < 100
ScoresNN(n) == "scores." \o Digit[(n \div 10) + 1] \o Digit[(n % 10) + 1]

\* the level above a level of nodes, lv the number of the level hashed
LevelAbove(nodes, lv) ==
    [j \in 1 .. ((Len(nodes) + 1) \div 2) |->
        IF 2 * j <= Len(nodes)
        THEN Sha256(nodes[2 * j - 1] \o nodes[2 * j])
        ELSE Sha256(nodes[2 * j - 1] \o [b \in 1 .. 32 |-> lv])]

\* the n-th level above the leaf digests
RECURSIVE TreeLevel(_)
TreeLevel(n) == IF n = 0 THEN LeafDigests ELSE LevelAbove(TreeLevel(n - 1), n - 1)

\* the files opened after scores.leaf
OpenedAfterLeaf ==
    LET k == CHOOSE i \in 1 .. Len(opened) : opened[i] = "scores.leaf"
    IN  SubSeq(opened, k + 1, Len(opened))

\* C8: no file is opened twice; the build over, the files opened after
\* scores.leaf are scores.00, scores.01, ... one per level above the leaf
\* digests and in that order, then scores.root; each scores.NN holds the
\* nodes of its level from left to right, and scores.root the one node of
\* the last level.
C8_EveryLevelPersisted ==
    /\ \A i, j \in 1 .. Len(opened) : i # j => opened[i] # opened[j]
    /\ pc = "done" =>
          /\ OpenedAfterLeaf = [n \in 1 .. level |-> ScoresNN(n - 1)] \o <<"scores.root">>
          /\ DOMAIN files = Range(opened)
          /\ \A n \in 1 .. level : files[ScoresNN(n - 1)] = TreeLevel(n)
          /\ Len(TreeLevel(level)) = 1
          /\ files["scores.root"] = <<TreeLevel(level)[1]>>

\* C8 witness: the build is over with more than two level files written
C8_Witness ==
    /\ pc = "done"
    /\ level > 2
    /\ "scores.root" \in DOMAIN files
    /\ ScoresNN(2) \in DOMAIN files

====
